---- MODULE Spec2Model ----
(***************************************************************************)
(* A model of the eis_toolkit utility functions: raster resampling,        *)
(* the exploratory statistical tests, one-hot encoding and the pairwise    *)
(* logratio transform.  Every library function is a pure operator that     *)
(* returns the outcome of one call (the value returned or the exception    *)
(* raised, together with the library calls made on the way); one action    *)
(* per function performs a call with inputs drawn from small sets.  A      *)
(* command of the command line runs statement by statement, each of which  *)
(* completes or raises.                                                    *)
(***************************************************************************)
EXTENDS Integers, Sequences, FiniteSets, TLC

VARIABLES pc, op, args, result, cli

vars == <<pc, op, args, result, cli>>

(***************************************************************************)
(* Bounds of the model.                                                    *)
(***************************************************************************)
\* Largest raster width / height drawn.
MaxDim == 3
\* Largest number of rows of a table handed to one_hot_encode.
MaxRows == 3
\* Longest `columns` list handed to chi_square_test.
MaxColumnsLen == 2

(***************************************************************************)
(* Numbers.  A scale factor or pixel size is a rational <<num, den>> with  *)
(* den > 0; all factors drawn have a power of two as denominator, so the   *)
(* floating point products of the code are exact.                          *)
(***************************************************************************)
Abs(x) == IF x < 0 THEN -x ELSE x

RECURSIVE GCD(_, _)
GCD(a, b) == IF b = 0 THEN a ELSE GCD(b, a % b)

Norm(q) ==
    LET g == GCD(Abs(q[1]), q[2])
    IN  IF q[1] = 0 THEN <<0, 1>> ELSE <<q[1] \div g, q[2] \div g>>

RatEq(p, q) == p[1] * q[2] = q[1] * p[2]

\* Python's optional argument left out.
None == <<0, 0>>
IsNone(v) == v[2] = 0

\* Python's built-in round(n / d) for d > 0: to the nearest integer, a tie
\* to the even neighbour.
round(n, d) ==
    LET q == n \div d
        r == n % d
    IN  IF 2 * r < d THEN q
        ELSE IF 2 * r > d THEN q + 1
        ELSE IF q % 2 = 0 THEN q ELSE q + 1

(***************************************************************************)
(* raster_processing/resampling.py                                         *)
(***************************************************************************)
\* eis_toolkit.checks.parameter.check_numeric_value_sign: is the value
\* positive.
check_numeric_value_sign(x) == x[1] > 0

\* A faulty scaling: the ratios inverted (new size / old size).
scale_inverted(transform, sx, sy) ==
    [a |-> Norm(<<transform.a[1] * sx[2], transform.a[2] * sx[1]>>),
     e |-> Norm(<<transform.e[1] * sy[2], transform.e[2] * sy[1]>>),
     c |-> transform.c,
     f |-> transform.f]

\* The transform of the raster multiplied by Affine.scale(sx, sy), for a
\* north-up transform (no rotation terms): the pixel sizes a and e are
\* scaled, the origin (c, f) is kept.  sx and sy are rationals.
scale(transform, sx, sy) ==
    [a |-> Norm(<<transform.a[1] * sx[1], transform.a[2] * sx[2]>>),
     e |-> Norm(<<transform.e[1] * sy[1], transform.e[2] * sy[2]>>),
     c |-> transform.c,
     f |-> transform.f]

\* The shape asked of raster.read: (count, rows, columns).
out_shape(raster, upscale_factor, upscale_factor_y) ==
    <<raster.count,
      round(raster.height * upscale_factor[1], upscale_factor[2]),
      round(raster.width * upscale_factor_y[1], upscale_factor_y[2])>>

\* A faulty update: the nodata value of the source is kept.
out_meta_keeps_nodata(raster, shape, out_transform) ==
    [transform |-> out_transform,
     width     |-> shape[3],
     height    |-> shape[2],
     nodata    |-> raster.meta.nodata,
     count     |-> raster.meta.count,
     crs       |-> raster.meta.crs]

\* The metadata of the source updated for the resampled grid.
out_meta(raster, shape, out_transform) ==
    [transform |-> out_transform,
     width     |-> shape[3],
     height    |-> shape[2],
     nodata    |-> 0,
     count     |-> raster.meta.count,
     crs       |-> raster.meta.crs]

\* _resample: the set of outcomes of the call.  raster.read returns an array
\* of the shape asked for.  A negative dimension is refused by the read; a
\* dimension of zero is refused by the read or, if the read returns an empty
\* array, makes the division by the new width or height fail.
_resample(raster, resampling_method, upscale_factor, upscale_factor_y) ==
    LET fy    == IF IsNone(upscale_factor_y) THEN upscale_factor
                 ELSE upscale_factor_y
        shape == out_shape(raster, upscale_factor, fy)
    IN  IF shape[2] < 0 \/ shape[3] < 0
        THEN {[status |-> "ReadError", reads |-> 1]}
        ELSE IF shape[2] = 0 \/ shape[3] = 0
        THEN {[status |-> "ReadError", reads |-> 1],
              [status |-> "ZeroDivisionError", reads |-> 1]}
        ELSE {[status    |-> "ok",
               reads     |-> 1,
               out_image |-> [shape |-> shape, resampling |-> resampling_method],
               out_meta  |-> out_meta(raster, shape,
                                 scale(raster.transform,
                                       <<raster.width, shape[3]>>,
                                       <<raster.height, shape[2]>>))]}

\* A faulty resample: the sign check lets a factor of zero through.
resample_accepts_zero(raster, upscale_factor, upscale_factor_y, resampling_method) ==
    IF upscale_factor[1] < 0
    THEN {[status |-> "NumericValueSignException", reads |-> 0]}
    ELSE _resample(raster, resampling_method, upscale_factor, upscale_factor_y)

\* resample: the sign check of the horizontal factor, then _resample.
resample(raster, upscale_factor, upscale_factor_y, resampling_method) ==
    IF ~check_numeric_value_sign(upscale_factor)
    THEN {[status |-> "NumericValueSignException", reads |-> 0]}
    ELSE _resample(raster, resampling_method, upscale_factor, upscale_factor_y)

\* The inputs drawn.
Factors == {<<-1, 1>>, <<0, 1>>, <<1, 4>>, <<1, 2>>, <<1, 1>>, <<3, 2>>, <<2, 1>>}
PixelSizes == {<<1, -1>>, <<2, -2>>, <<3, -1>>}
NodataValues == {-9999, 0, 255}
ResamplingMethods == {"nearest", "bilinear"}

Raster(w, h, px, nodata) ==
    LET t == [a |-> <<px[1], 1>>, e |-> <<px[2], 1>>, c |-> 10, f |-> 20]
    IN  [width |-> w, height |-> h, count |-> 1, transform |-> t,
         meta |-> [transform |-> t, width |-> w, height |-> h,
                   nodata |-> nodata, count |-> 1, crs |-> "EPSG:3067"]]

Rasters ==
    {Raster(w, h, px, nd) : w \in 1..MaxDim, h \in 1..MaxDim,
                            px \in PixelSizes, nd \in NodataValues}

ResampleCall ==
    /\ pc = "idle"
    /\ \E raster \in Rasters, s \in Factors, v \in Factors \cup {None},
          m \in ResamplingMethods :
         /\ args' = [raster |-> raster, upscale_factor |-> s,
                     upscale_factor_y |-> v, resampling_method |-> m]
         /\ \E r \in resample(raster, s, v, m) : result' = r
    /\ op' = "resample"
    /\ pc' = "returned"
    /\ UNCHANGED cli

(***************************************************************************)
(* Properties of resample.                                                 *)
(***************************************************************************)
ResampleReturned == pc = "returned" /\ op = "resample"
ResampleOk == ResampleReturned /\ result.status = "ok"

\* The vertical factor of the call: upscale_factor_y, or upscale_factor when
\* it is left out.
VerticalFactor ==
    IF IsNone(args.upscale_factor_y) THEN args.upscale_factor
    ELSE args.upscale_factor_y

\* C1: the returned grid's width is round(W * upscale_factor) and its height
\* is round(H * upscale_factor_y) (upscale_factor when upscale_factor_y is
\* left out).
C1_WidthByFactorHeightByFactorY ==
    ResampleOk =>
        /\ result.out_image.shape[3] =
               round(args.raster.width * args.upscale_factor[1],
                     args.upscale_factor[2])
        /\ result.out_image.shape[2] =
               round(args.raster.height * VerticalFactor[1], VerticalFactor[2])

\* C2: a call with upscale_factor <= 0 fails with NumericValueSignException
\* and never reads the raster, whatever the other arguments are.
C2_NonPositiveFactorRejectedBeforeRead ==
    (ResampleReturned /\ args.upscale_factor[1] <= 0) =>
        /\ result.status = "NumericValueSignException"
        /\ result.reads = 0

C2_Witness ==
    /\ ResampleReturned
    /\ args.upscale_factor = <<0, 1>>
    /\ ~IsNone(args.upscale_factor_y)
    /\ args.resampling_method = "nearest"
    /\ result.status = "NumericValueSignException"

\* C3 as stated: the pixel size of the returned transform is the pixel size
\* of the source divided by the factor of the axis, for every raster size.
C3_PixelSizeDividedByFactor ==
    ResampleOk =>
        /\ RatEq(result.out_meta.transform.a,
                 <<args.raster.transform.a[1] * args.upscale_factor[2],
                   args.raster.transform.a[2] * args.upscale_factor[1]>>)
        /\ RatEq(result.out_meta.transform.e,
                 <<args.raster.transform.e[1] * VerticalFactor[2],
                   args.raster.transform.e[2] * VerticalFactor[1]>>)

\* C3 amended: in each axis, where the size of the returned grid is exactly
\* the size of the source times the factor of the axis, the pixel size of
\* the returned transform is the pixel size of the source divided by that
\* factor.
C3_PixelSizeDividedByFactorWhereGridExact ==
    ResampleOk =>
        /\ (result.out_image.shape[3] * args.upscale_factor[2] =
                args.raster.width * args.upscale_factor[1])
             => RatEq(result.out_meta.transform.a,
                      <<args.raster.transform.a[1] * args.upscale_factor[2],
                        args.raster.transform.a[2] * args.upscale_factor[1]>>)
        /\ (result.out_image.shape[2] * VerticalFactor[2] =
                args.raster.height * VerticalFactor[1])
             => RatEq(result.out_meta.transform.e,
                      <<args.raster.transform.e[1] * VerticalFactor[2],
                        args.raster.transform.e[2] * VerticalFactor[1]>>)

C3_Witness ==
    /\ ResampleOk
    /\ args.upscale_factor = <<1, 2>>
    /\ IsNone(args.upscale_factor_y)
    /\ args.raster.width = 2
    /\ args.raster.height = 2
    /\ result.out_image.shape = <<1, 1, 1>>
    /\ result.out_meta.transform.a = <<2 * args.raster.transform.a[1], 1>>

\* C4: the returned metadata agrees with the returned grid: width and height
\* are the grid's last two dimensions, pixel size times pixel count is that
\* of the source in each axis with the origin kept, and nodata is 0.
C4_MetadataConsistentWithGrid ==
    ResampleOk =>
        LET meta == result.out_meta
            src  == args.raster
        IN  /\ meta.width = result.out_image.shape[3]
            /\ meta.height = result.out_image.shape[2]
            /\ meta.transform.a[1] * meta.width * src.transform.a[2] =
                   src.transform.a[1] * src.width * meta.transform.a[2]
            /\ meta.transform.e[1] * meta.height * src.transform.e[2] =
                   src.transform.e[1] * src.height * meta.transform.e[2]
            /\ meta.transform.c = src.transform.c
            /\ meta.transform.f = src.transform.f
            /\ meta.nodata = 0

C4_Witness ==
    /\ ResampleOk
    /\ args.raster.meta.nodata = -9999
    /\ args.raster.width = 3
    /\ args.upscale_factor = <<1, 2>>
    /\ result.out_meta.width = 2
    /\ result.out_meta.transform.a = Norm(<<3 * args.raster.transform.a[1], 2>>)
    /\ result.out_meta.nodata = 0

(***************************************************************************)
(* exploratory_analyses/statistical_tests.py                               *)
(*                                                                         *)
(* A DataFrame is a record: its column labels in order, its number of      *)
(* rows, the columns whose dtype is not numeric and the columns that hold  *)
(* a NaN (all in one and the same row).  An optional integer argument is   *)
(* the empty set (None) or the singleton of its value.                     *)
(***************************************************************************)
ToSet(seq) == {seq[i] : i \in DOMAIN seq}

\* The documented ceiling of the Shapiro-Wilk sample size.
SampleSizeLimit == 5000

\* eis_toolkit.utilities.checks.dataframe.check_empty_dataframe: df.empty,
\* true of a frame with no rows or no columns.
check_empty_dataframe(df) == df.nrows = 0 \/ Len(df.columns) = 0

\* check_columns_valid: every selected label is a column of the frame.
check_columns_valid(df, columns) == ToSet(columns) \subseteq ToSet(df.columns)

\* check_columns_numeric: every selected column has a numeric dtype.
check_columns_numeric(df, columns) == ToSet(columns) \cap df.nonnumeric = {}

\* Python's truth value of a string: any but the empty string.
Truthy(s) == s # ""

\* any(invalid_columns): some element of the list is truthy.
any(seq) == \E i \in DOMAIN seq : Truthy(seq[i])

\* [column for column in columns if column not in data.columns]
invalid_columns(data, columns) ==
    SelectSeq(columns, LAMBDA column : column \notin ToSet(data.columns))

\* The loop of chi_square_test from position i on: `crosstabs` contingency
\* tables computed so far (one per list element other than target_column, a
\* repeated label computed again), `statistics` the keys of the dictionary
\* filled so far (a repeated label overwrites its entry).  data[column] of a
\* label that is no column raises KeyError.
RECURSIVE chi_square_loop(_, _, _, _, _, _)
chi_square_loop(data, target_column, columns, i, crosstabs, statistics) ==
    IF i > Len(columns)
    THEN [status |-> "ok", crosstabs |-> crosstabs, statistics |-> statistics]
    ELSE IF columns[i] = target_column
    THEN chi_square_loop(data, target_column, columns, i + 1, crosstabs, statistics)
    ELSE IF columns[i] \notin ToSet(data.columns)
    THEN [status |-> "KeyError", crosstabs |-> crosstabs]
    ELSE chi_square_loop(data, target_column, columns, i + 1,
                         crosstabs + 1, statistics \cup {columns[i]})

\* chi_square_test; columns is <<None>> for None, else <<list>>.
chi_square_test(data, target_column, columns) ==
    IF check_empty_dataframe(data)
    THEN [status |-> "EmptyDataFrameException", crosstabs |-> 0]
    ELSE IF ~check_columns_valid(data, <<target_column>>)
    THEN [status |-> "InvalidParameterValueException", crosstabs |-> 0]
    ELSE IF columns.given /\ any(invalid_columns(data, columns.list))
    THEN [status |-> "InvalidParameterValueException", crosstabs |-> 0]
    ELSE chi_square_loop(data, target_column,
                         IF columns.given THEN columns.list ELSE data.columns,
                         1, 0, {})

\* data[columns].dropna(): the row holding NaN goes when one of the selected
\* columns holds a NaN.
dropna_rows(data, columns) ==
    IF ToSet(columns) \cap data.nan_cols # {} THEN data.nrows - 1 ELSE data.nrows

\* A faulty loop: the statistic of a column is computed before its size is
\* checked.
RECURSIVE normality_loop_statistic_first(_, _, _)
normality_loop_statistic_first(columns, rows, i) ==
    IF i > Len(columns)
    THEN [status |-> "ok", shapiros |-> Len(columns),
          statistics |-> ToSet(columns)]
    ELSE IF rows > SampleSizeLimit
    THEN [status |-> "SampleSizeExceededException", shapiros |-> i]
    ELSE normality_loop_statistic_first(columns, rows, i + 1)

\* The loop of normality_test over the columns from position i on: the size
\* check of a column precedes its Shapiro-Wilk statistic.
RECURSIVE normality_loop(_, _, _)
normality_loop(columns, rows, i) ==
    IF i > Len(columns)
    THEN [status |-> "ok", shapiros |-> Len(columns),
          statistics |-> ToSet(columns)]
    ELSE IF rows > SampleSizeLimit
    THEN [status |-> "SampleSizeExceededException", shapiros |-> i - 1]
    ELSE normality_loop(columns, rows, i + 1)

\* normality_test on a DataFrame.
normality_test_dataframe(data, columns) ==
    IF check_empty_dataframe(data)
    THEN [status |-> "EmptyDataException", shapiros |-> 0]
    ELSE IF columns.given
    THEN IF ~check_columns_valid(data, columns.list)
         THEN [status |-> "InvalidColumnException", shapiros |-> 0]
         ELSE IF ~check_columns_numeric(data, columns.list)
         THEN [status |-> "NonNumericDataException", shapiros |-> 0]
         ELSE normality_loop(columns.list, dropna_rows(data, columns.list), 1)
    ELSE IF ~check_columns_numeric(data, data.columns)
         THEN [status |-> "NonNumericDataException", shapiros |-> 0]
         ELSE normality_loop(data.columns, data.nrows, 1)

\* Number of elements of an array (data.size) and length of its first axis
\* (len(data)).
size(array) ==
    IF Len(array.shape) = 1 THEN array.shape[1]
    ELSE array.shape[1] * array.shape[2]

len(array) == array.shape[1]

\* normality_test on a numpy array: the statistic is computed once, on the
\* flattened array without its NaN.
normality_test_array(data) ==
    IF size(data) = 0
    THEN [status |-> "EmptyDataException", shapiros |-> 0]
    ELSE IF len(data) > SampleSizeLimit
    THEN [status |-> "SampleSizeExceededException", shapiros |-> 0]
    ELSE [status |-> "ok", shapiros |-> 1, samples |-> size(data) - data.nan]

normality_test(data, columns) ==
    IF data.is_dataframe THEN normality_test_dataframe(data, columns)
    ELSE normality_test_array(data)

\* A faulty correlation_matrix: the min_periods check comes first.
correlation_matrix_checks_method_first(data, correlation_method, min_periods) ==
    IF correlation_method = "kendall" /\ min_periods # {}
    THEN [status |-> "InvalidParameterValueException", numeric |-> 0]
    ELSE IF check_empty_dataframe(data)
    THEN [status |-> "EmptyDataFrameException", numeric |-> 0]
    ELSE IF ~check_columns_numeric(data, data.columns)
    THEN [status |-> "NonNumericDataException", numeric |-> 0]
    ELSE [status |-> "ok", numeric |-> 1, matrix |-> ToSet(data.columns)]

correlation_matrix(data, correlation_method, min_periods) ==
    IF check_empty_dataframe(data)
    THEN [status |-> "EmptyDataFrameException", numeric |-> 0]
    ELSE IF ~check_columns_numeric(data, data.columns)
    THEN [status |-> "NonNumericDataException", numeric |-> 0]
    ELSE IF correlation_method = "kendall" /\ min_periods # {}
    THEN [status |-> "InvalidParameterValueException", numeric |-> 0]
    ELSE [status |-> "ok", numeric |-> 1, matrix |-> ToSet(data.columns)]

covariance_matrix(data, min_periods, delta_degrees_of_freedom) ==
    IF check_empty_dataframe(data)
    THEN [status |-> "EmptyDataFrameException", numeric |-> 0]
    ELSE IF ~check_columns_numeric(data, data.columns)
    THEN [status |-> "NonNumericDataException", numeric |-> 0]
    ELSE IF delta_degrees_of_freedom < 0
    THEN [status |-> "InvalidParameterValueException", numeric |-> 0]
    ELSE IF \E mp \in min_periods : mp # 0 /\ mp < 0
    THEN [status |-> "InvalidParameterValueException", numeric |-> 0]
    ELSE [status |-> "ok", numeric |-> 1, matrix |-> ToSet(data.columns)]

\* The inputs drawn.  Row counts of 1 and 2 are left out: the Shapiro-Wilk
\* statistic wants three samples.
ColumnLabels == {"t", "a", ""}
ColumnLists ==
    {<<>>, <<"t">>, <<"a">>, <<"">>, <<"t", "a">>, <<"t", "">>, <<"a", "">>,
     <<"t", "a", "">>}
RowCounts == {0, 4, SampleSizeLimit, SampleSizeLimit + 1}

DataFrames ==
    {[is_dataframe |-> TRUE, columns |-> cs, nrows |-> n, nonnumeric |-> nn,
      nan_cols |-> nc] :
        cs \in ColumnLists, n \in RowCounts,
        nn \in {{}, {"a"}}, nc \in {{}, {"t"}, {"a"}}}

StatFrames ==
    {df \in DataFrames :
        /\ df.nonnumeric \subseteq ToSet(df.columns)
        /\ df.nan_cols \subseteq ToSet(df.columns)
        /\ df.nrows = 0 => df.nan_cols = {}}

ArrayShapes ==
    {<<n>> : n \in RowCounts} \cup
    {<<n, k>> : n \in RowCounts, k \in {1, 2, 1251}}

Arrays ==
    {[is_dataframe |-> FALSE, shape |-> s, nan |-> k] :
        s \in ArrayShapes, k \in {0, 1}}

StatArrays == {a \in Arrays : size(a) = 0 => a.nan = 0}

ArgLabels == ColumnLabels \cup {"q"}

RECURSIVE ListsUpTo(_, _)
ListsUpTo(S, n) ==
    IF n = 0 THEN {<<>>}
    ELSE LET shorter == ListsUpTo(S, n - 1)
         IN  shorter \cup {Append(l, x) : l \in shorter, x \in S}

\* The optional `columns` argument: None or a list of labels.
ColumnsArgs ==
    {[given |-> FALSE]} \cup
    {[given |-> TRUE, list |-> l] : l \in ListsUpTo(ArgLabels, MaxColumnsLen)}

OptionalInts == {{}, {-1}, {0}, {2}}

ChiSquareTestCall ==
    /\ pc = "idle"
    /\ \E data \in StatFrames, target_column \in ArgLabels,
          columns \in ColumnsArgs :
         /\ args' = [data |-> data, target_column |-> target_column,
                     columns |-> columns]
         /\ result' = chi_square_test(data, target_column, columns)
    /\ op' = "chi_square_test"
    /\ pc' = "returned"
    /\ UNCHANGED cli

NormalityTestCall ==
    /\ pc = "idle"
    /\ \E data \in StatFrames \cup StatArrays, columns \in ColumnsArgs :
         /\ args' = [data |-> data, columns |-> columns]
         /\ result' = normality_test(data, columns)
    /\ op' = "normality_test"
    /\ pc' = "returned"
    /\ UNCHANGED cli

CorrelationMatrixCall ==
    /\ pc = "idle"
    /\ \E data \in StatFrames,
          correlation_method \in {"pearson", "kendall", "spearman"},
          min_periods \in OptionalInts :
         /\ args' = [data |-> data, correlation_method |-> correlation_method,
                     min_periods |-> min_periods]
         /\ result' = correlation_matrix(data, correlation_method, min_periods)
    /\ op' = "correlation_matrix"
    /\ pc' = "returned"
    /\ UNCHANGED cli

CovarianceMatrixCall ==
    /\ pc = "idle"
    /\ \E data \in StatFrames, min_periods \in OptionalInts,
          delta_degrees_of_freedom \in {-1, 0, 1} :
         /\ args' = [data |-> data, min_periods |-> min_periods,
                     delta_degrees_of_freedom |-> delta_degrees_of_freedom]
         /\ result' = covariance_matrix(data, min_periods,
                                        delta_degrees_of_freedom)
    /\ op' = "covariance_matrix"
    /\ pc' = "returned"
    /\ UNCHANGED cli

(***************************************************************************)
(* transformations/one_hot_encoding.py                                     *)
(*                                                                         *)
(* A table is a record: whether it is a DataFrame or a numpy array, its    *)
(* column labels in order (none for an array) and its cells, one sequence  *)
(* of values per column.  A column of the output is an original column     *)
(* (indicator FALSE) or the indicator column of a category of a feature,   *)
(* whose name is str(feature) + "_" + str(category).                       *)
(***************************************************************************)
\* The categorical values drawn, in sorted order.
Values == <<"x", "y", "z">>

\* The labels pandas gives the columns of pd.DataFrame(array): the integers
\* 0, 1, ..., written "int:0", "int:1" to keep them apart from every string
\* label.
RangeIndex(n) == [i \in 1..n |-> IF i = 1 THEN "int:0" ELSE "int:1"]

nrows(data) == IF Len(data.cells) = 0 THEN data.index ELSE Len(data.cells[1])

\* data.empty of a DataFrame, data.size == 0 of an array: no row or no
\* column.
empty(data) == nrows(data) = 0 \/ Len(data.cells) = 0

\* df[columns]: the positions in df of the selected labels, in the order
\* selected.
position(df_columns, label) ==
    CHOOSE i \in DOMAIN df_columns : df_columns[i] = label

\* The categories OneHotEncoder finds in a column: its unique values, sorted.
categories(cells) == SelectSeq(Values, LAMBDA v : v \in ToSet(cells))

\* A faulty encoder: drop = 'first' drops nothing.
kept_categories_ignores_first(cats, drop_category) ==
    IF drop_category = "if_binary" /\ Len(cats) = 2
    THEN Tail(cats)
    ELSE cats

\* The categories that get an indicator column: all of them, all but the
\* first under drop = 'first', and all but the first of a feature with
\* exactly two categories under drop = 'if_binary'.
kept_categories(cats, drop_category) ==
    IF drop_category = "first" \/ (drop_category = "if_binary" /\ Len(cats) = 2)
    THEN Tail(cats)
    ELSE cats

\* encoder.get_feature_names_out: the indicator columns of the features from
\* position i on, feature by feature.
RECURSIVE encoded_cols(_, _, _, _)
encoded_cols(labels, cells, drop_category, i) ==
    IF i > Len(labels) THEN <<>>
    ELSE LET cats == kept_categories(categories(cells[i]), drop_category)
         IN  [j \in 1..Len(cats) |->
                 [indicator |-> TRUE, feature |-> labels[i],
                  category |-> cats[j]]]
             \o encoded_cols(labels, cells, drop_category, i + 1)

\* df.drop(labels, axis=1): the columns of df whose label is not dropped.
drop(df_columns, labels) ==
    SelectSeq(df_columns, LAMBDA c : c \notin ToSet(labels))

original_cols(labels) ==
    [i \in 1..Len(labels) |->
        [indicator |-> FALSE, feature |-> labels[i], category |-> "-"]]

one_hot_encode(data, columns, drop_encoded_columns, drop_category, sparse_output) ==
    IF data.is_dataframe /\ empty(data)
    THEN [status |-> "EmptyDataFrameException"]
    ELSE IF ~data.is_dataframe /\ empty(data)
    THEN [status |-> "InvalidDatasetException"]
    ELSE
    LET df_columns == IF data.is_dataframe THEN data.columns
                      ELSE RangeIndex(Len(data.cells))
    IN  IF columns.given
           /\ ~check_columns_valid([columns |-> df_columns], columns.list)
        THEN [status |-> "InvalidColumnException"]
        ELSE
        LET transform_columns ==
                IF columns.given THEN columns.list ELSE df_columns
            transform_cells ==
                [i \in 1..Len(transform_columns) |->
                    data.cells[position(df_columns, transform_columns[i])]]
            encoded == encoded_cols(transform_columns, transform_cells,
                                    drop_category, 1)
        IN  IF data.is_dataframe
            THEN [status  |-> "ok",
                  type    |-> "DataFrame",
                  sparse  |-> sparse_output,
                  columns |->
                      original_cols(IF drop_encoded_columns
                                    THEN drop(df_columns, transform_columns)
                                    ELSE df_columns)
                      \o encoded]
            ELSE [status  |-> "ok",
                  type    |-> "array",
                  sparse  |-> sparse_output,
                  columns |-> encoded]

\* The inputs drawn: tables of up to two columns, the second column over the
\* first two values only; every selection of columns is a list without
\* repetition and not empty.
Tables ==
    {[is_dataframe |-> d, index |-> n, cells |-> <<>>] :
        d \in BOOLEAN, n \in 0..MaxRows}
    \cup
    {[is_dataframe |-> d, index |-> n, cells |-> <<c1>>] :
        d \in BOOLEAN, n \in 0..MaxRows, c1 \in ListsUpTo(ToSet(Values), MaxRows)}
    \cup
    {[is_dataframe |-> d, index |-> n, cells |-> <<c1, c2>>] :
        d \in BOOLEAN, n \in 0..MaxRows, c1 \in ListsUpTo(ToSet(Values), MaxRows),
        c2 \in ListsUpTo({"x", "y"}, MaxRows)}

Labelled(table) ==
    IF table.is_dataframe
    THEN [is_dataframe |-> TRUE, index |-> table.index, cells |-> table.cells,
          columns |-> SubSeq(<<"a", "b">>, 1, Len(table.cells))]
    ELSE table

EncodeTables ==
    {Labelled(tb) : tb \in
        {x \in Tables :
            /\ \A i \in DOMAIN x.cells : Len(x.cells[i]) = x.index}}

EncodeColumnsArgs ==
    {[given |-> FALSE]} \cup
    {[given |-> TRUE, list |-> l] :
        l \in {<<"a">>, <<"b">>, <<"a", "b">>, <<"b", "a">>, <<"q">>, <<"a", "q">>}}

DropCategories == {"None", "first", "if_binary"}

OneHotEncodeCall ==
    /\ pc = "idle"
    /\ \E data \in EncodeTables, columns \in EncodeColumnsArgs,
          drop_encoded_columns \in BOOLEAN, drop_category \in DropCategories,
          sparse_output \in BOOLEAN :
         /\ args' = [data |-> data, columns |-> columns,
                     drop_encoded_columns |-> drop_encoded_columns,
                     drop_category |-> drop_category,
                     sparse_output |-> sparse_output]
         /\ result' = one_hot_encode(data, columns, drop_encoded_columns,
                                     drop_category, sparse_output)
    /\ op' = "one_hot_encode"
    /\ pc' = "returned"
    /\ UNCHANGED cli

(***************************************************************************)
(* transformations/coda/pairwise.py                                        *)
(***************************************************************************)
\* A faulty check: only the denominator is compared with zero.
single_pairwise_logratio_checks_denominator(numerator, denominator) ==
    IF denominator = 0
    THEN [status |-> "InvalidParameterValueException"]
    ELSE [status |-> "ok", log_of |-> Norm(<<numerator, denominator>>)]

\* single_pairwise_logratio: the logarithm of numerator / denominator, kept
\* as the ratio it is the logarithm of; a zero operand is refused.
single_pairwise_logratio(numerator, denominator) ==
    IF numerator = 0 \/ denominator = 0
    THEN [status |-> "InvalidParameterValueException"]
    ELSE [status |-> "ok", log_of |-> Norm(<<numerator, denominator>>)]

Operands == {0, 1, 15, 80}

SinglePairwiseLogratioCall ==
    /\ pc = "idle"
    /\ \E numerator \in Operands, denominator \in Operands :
         /\ args' = [numerator |-> numerator, denominator |-> denominator]
         /\ result' = single_pairwise_logratio(numerator, denominator)
    /\ op' = "single_pairwise_logratio"
    /\ pc' = "returned"
    /\ UNCHANGED cli

(***************************************************************************)
(* cli_typer.py                                                            *)
(*                                                                         *)
(* A command is the sequence of its statements.  A statement names the     *)
(* local variables it reads (uses) and binds (binds, each with the type of *)
(* the value bound), and the raster handles whose `with` block encloses it *)
(* (within).  The state of a running command: the position reached, the    *)
(* local variables bound, the raster handles open (with their mode) and    *)
(* the log of what it did.                                                 *)
(***************************************************************************)
Stmt(kind, name, uses, binds, within) ==
    [kind |-> kind, name |-> name, uses |-> uses, binds |-> binds,
     within |-> within]

echo(message, uses) == Stmt("echo", message, uses, {}, {})

\* gpd.read_file(path)
read_file(path) ==
    Stmt("read_file", path, {path}, {<<"geodataframe", "GeoDataFrame">>}, {})

\* with rasterio.open(path) as handle
open_r(handle, path, within) ==
    Stmt("open_r", path, {path}, {<<handle, "DatasetReader">>}, within)

\* with rasterio.open(path, "w", **meta) as handle
open_w(handle, path, meta) ==
    Stmt("open_w", path, {path, meta}, {<<handle, "DatasetWriter">>}, {})

\* handle.write(out_image, ...)
write(handle, uses) == Stmt("write", handle, {handle} \cup uses, {}, {handle})

\* The end of the `with` block of a handle.
close(handle) == Stmt("close", handle, {}, {}, {handle})

\* A call of a function of the toolkit.
call(function, uses, binds, within) == Stmt("call", function, uses, binds, within)

\* An assignment or in-place update that calls nothing that does I/O.
assign(name, uses, binds, within) == Stmt("assign", name, uses, binds, within)

\* The tail every raster command shares: open the output for writing, write
\* the image, leave the block.
write_raster(path, meta, uses) ==
    <<open_w("dst", path, meta), write("dst", uses), close("dst")>>

clip_raster_cli ==
    <<echo("Progress: 10%", {}),
      read_file("geometries"),
      echo("Progress: 40%", {}),
      open_r("raster", "input_raster", {}),
      call("clip_raster", {"raster", "geodataframe"},
           {<<"out_image", "ndarray">>, <<"out_meta", "dict">>}, {"raster"}),
      close("raster"),
      echo("Progress: 70%", {})>>
    \o write_raster("output_raster", "out_meta", {"out_image"})
    \o <<echo("Progress: 100%", {}),
         echo("Clipping completed", {"output_raster"})>>

reproject_raster_cli ==
    <<assign("method", {"resampling_method"}, {<<"method", "Resampling">>}, {}),
      open_r("raster", "input_raster", {}),
      call("reproject_raster", {"raster", "target_crs", "method"},
           {<<"out_image", "ndarray">>, <<"out_meta", "dict">>}, {"raster"}),
      close("raster")>>
    \o write_raster("output_raster", "out_meta", {"out_image"})
    \o <<echo("Reprojecting completed", {}),
         echo("Writing raster to", {"output_raster"})>>

snap_raster_cli ==
    <<open_r("src", "input_raster", {}),
      open_r("snap_src", "snap_raster", {"src"}),
      call("snap_with_raster", {"src", "snap_src"},
           {<<"out_image", "ndarray">>, <<"out_meta", "dict">>},
           {"src", "snap_src"}),
      close("snap_src"),
      close("src")>>
    \o write_raster("output_raster", "out_meta", {"out_image"})
    \o <<echo("Snapping completed", {}),
         echo("Writing raster to", {"output_raster"})>>

extract_window_cli ==
    <<open_r("raster", "input_raster", {}),
      call("extract_window", {"raster", "center_coords", "height", "width"},
           {<<"out_image", "ndarray">>, <<"out_meta", "dict">>}, {"raster"}),
      close("raster")>>
    \o write_raster("output_raster", "out_meta", {"out_image"})
    \o <<echo("Windowing completed", {}),
         echo("Writing raster to", {"output_raster"})>>

\* Not implemented: the body is `pass`.
unify_rasters_cli == <<>>

\* base_given: the option base_raster_profile_raster was given (its default
\* is None).
rasterize_cli(base_given) ==
    <<assign("import rasterize_vector", {},
             {<<"rasterize_vector", "function">>}, {}),
      read_file("input_vector")>>
    \o (IF base_given
        THEN <<open_r("raster", "base_raster_profile_raster", {}),
               assign("base_raster_profile", {"raster"},
                      {<<"base_raster_profile", "dict">>}, {"raster"}),
               close("raster")>>
        ELSE <<>>)
    \o <<call("rasterize_vector",
              {"rasterize_vector", "geodataframe", "resolution", "value_column",
               "default_value", "fill_value", "base_raster_profile",
               "buffer_value", "merge_strategy"},
              {<<"out_image", "ndarray">>, <<"out_meta", "dict">>}, {}),
         IF base_given
         THEN assign("out_meta.update dtype of base profile",
                     {"out_meta", "base_raster_profile_raster",
                      "base_raster_profile"}, {}, {})
         ELSE assign("out_meta.update dtype float",
                     {"out_meta", "base_raster_profile_raster"}, {}, {})>>
    \o write_raster("output_raster", "out_meta", {"out_image"})
    \o <<echo("Rasterizing completed", {}),
         echo("Writing raster to", {"output_raster"})>>

reproject_vector_cli ==
    <<read_file("input_vector"),
      call("reproject_vector", {"geodataframe", "target_crs"},
           {<<"reprojected_geodataframe", "GeoDataFrame">>}, {}),
      Stmt("to_file", "output_vector",
           {"reprojected_geodataframe", "output_vector"}, {}, {}),
      echo("Reprojecting completed", {}),
      echo("Writing vector to", {"output_vector"})>>

kriging_interpolation_cli ==
    <<assign("import kriging", {}, {<<"kriging", "function">>}, {}),
      read_file("input_vector"),
      call("kriging",
           {"kriging", "geodataframe", "target_column", "pixel_size_x",
            "pixel_size_y", "extent", "variogram_model", "method",
            "drift_terms"},
           {<<"out_image", "ndarray">>, <<"out_meta", "dict">>}, {}),
      assign("out_meta.update", {"out_meta"}, {}, {})>>
    \o write_raster("out_image", "out_meta", {"out_image"})
    \o <<echo("Kriging interpolation completed", {}),
         echo("Writing raster to", {"output_raster"})>>

distance_computation_cli ==
    <<assign("import distance_computation", {},
             {<<"distance_computation", "function">>}, {}),
      open_r("raster", "input_raster", {}),
      assign("profile", {"raster"}, {<<"profile", "dict">>}, {"raster"}),
      close("raster"),
      read_file("geometries"),
      call("distance_computation",
           {"distance_computation", "profile", "geodataframe"},
           {<<"out_image", "ndarray">>}, {})>>
    \o write_raster("output_raster", "profile", {"out_image", "profile"})
    \o <<echo("Distance computation completed", {}),
         echo("Writing raster to", {"output_raster"})>>

Commands ==
    {"clip_raster_cli", "reproject_raster_cli", "snap_raster_cli",
     "extract_window_cli", "unify_rasters_cli", "rasterize_cli",
     "reproject_vector_cli", "kriging_interpolation_cli",
     "distance_computation_cli"}

\* The statements of a command.
Program(cmd, base_given) ==
    CASE cmd = "clip_raster_cli" -> clip_raster_cli
      [] cmd = "reproject_raster_cli" -> reproject_raster_cli
      [] cmd = "snap_raster_cli" -> snap_raster_cli
      [] cmd = "extract_window_cli" -> extract_window_cli
      [] cmd = "unify_rasters_cli" -> unify_rasters_cli
      [] cmd = "rasterize_cli" -> rasterize_cli(base_given)
      [] cmd = "reproject_vector_cli" -> reproject_vector_cli
      [] cmd = "kriging_interpolation_cli" -> kriging_interpolation_cli
      [] cmd = "distance_computation_cli" -> distance_computation_cli

\* The parameters of a command, bound when it is entered: the path options
\* hold a Path, the scalar options a value; rasters_to_unify (List[Path])
\* holds a list of paths; base_raster_profile_raster holds None unless given.
Parameters(cmd, base_given) ==
    LET paths(S) == {<<o, "Path">> : o \in S}
        values(S) == {<<o, "value">> : o \in S}
    IN  CASE cmd = "clip_raster_cli" ->
               paths({"input_raster", "geometries", "output_raster"})
          [] cmd = "reproject_raster_cli" ->
               paths({"input_raster", "output_raster"})
               \cup values({"target_crs", "resampling_method"})
          [] cmd = "snap_raster_cli" ->
               paths({"input_raster", "snap_raster", "output_raster"})
          [] cmd = "extract_window_cli" ->
               paths({"input_raster", "output_raster"})
               \cup values({"center_coords", "height", "width"})
          [] cmd = "unify_rasters_cli" ->
               paths({"base_raster", "output_raster"})
               \cup {<<"rasters_to_unify", "list">>}
               \cup values({"resampling_method", "same_extent"})
          [] cmd = "rasterize_cli" ->
               paths({"input_vector", "output_raster"})
               \cup values({"resolution", "value_column", "default_value",
                            "fill_value", "buffer_value", "merge_strategy"})
               \cup {<<"base_raster_profile_raster",
                       IF base_given THEN "Path" ELSE "NoneType">>}
          [] cmd = "reproject_vector_cli" ->
               paths({"input_vector", "output_vector"})
               \cup values({"target_crs"})
          [] cmd = "kriging_interpolation_cli" ->
               paths({"input_vector", "output_raster"})
               \cup values({"target_column", "pixel_size_x", "pixel_size_y",
                            "extent", "variogram_model", "method",
                            "drift_terms"})
          [] cmd = "distance_computation_cli" ->
               paths({"input_raster", "geometries", "output_raster"})

Bound(locals) == {l[1] : l \in locals}
TypeOf(locals, name) == (CHOOSE l \in locals : l[1] = name)[2]

\* Binding a name replaces what it was bound to.
bind(locals, binds) ==
    {l \in locals : l[1] \notin Bound(binds)} \cup binds

\* A faulty unwinding: an exception leaves the handles of the enclosing
\* `with` blocks open.
unwind_leaks(handles, within) == handles

\* An exception leaves the `with` blocks that enclose the statement: their
\* handles are closed.
unwind(handles, within) == {h \in handles : h[1] \notin within}

\* The exceptions a statement can raise for reasons of its own: a name it
\* reads is not bound, or the path handed to rasterio.open or gpd.read_file
\* is no path.
OwnErrors(stmt, locals) ==
    IF ~(stmt.uses \subseteq Bound(locals)) THEN {"UnboundLocalError"}
    ELSE IF stmt.kind \in {"open_r", "open_w", "read_file"}
            /\ TypeOf(locals, stmt.name) # "Path"
    THEN {"TypeError"}
    ELSE {}

\* The exceptions the environment can make a statement raise: a file that
\* cannot be read or written, a library function that fails.
EnvironmentErrors(stmt) ==
    IF stmt.kind \in {"read_file", "open_r", "open_w", "write", "to_file"}
    THEN {"OSError"}
    ELSE IF stmt.kind = "call" THEN {"LibraryError"}
    ELSE {}

Event(stmt) == <<stmt.kind, stmt.name>>

\* The command after its next statement raised `error`.
raised(c, stmt, error) ==
    [c EXCEPT !.status = "error", !.error = error,
              !.handles = unwind(c.handles, stmt.within),
              !.log = Append(c.log, <<"raise", error>>)]

\* The name a `with rasterio.open(...) as name` statement binds.
HandleOf(stmt) == (CHOOSE b \in stmt.binds : TRUE)[1]

\* The command after its next statement completed.
completed(c, stmt) ==
    [c EXCEPT !.step = c.step + 1,
              !.locals = bind(c.locals, stmt.binds),
              !.handles =
                  IF stmt.kind = "open_r"
                  THEN c.handles \cup {<<HandleOf(stmt), "r">>}
                  ELSE IF stmt.kind = "open_w"
                  THEN c.handles \cup {<<HandleOf(stmt), "w">>}
                  ELSE IF stmt.kind = "close"
                  THEN {h \in c.handles : h[1] # stmt.name}
                  ELSE c.handles,
              !.log = Append(c.log, Event(stmt))]

\* The outcomes of the next statement of a running command.
execute(c) ==
    LET stmt == Program(c.cmd, c.base_given)[c.step]
        own  == OwnErrors(stmt, c.locals)
    IN  IF own # {}
        THEN {raised(c, stmt, e) : e \in own}
        ELSE {completed(c, stmt)}
             \cup {raised(c, stmt, e) : e \in EnvironmentErrors(stmt)}

CliIdle ==
    [cmd |-> "none", base_given |-> FALSE, status |-> "idle", step |-> 0,
     locals |-> {}, handles |-> {}, log |-> <<>>, error |-> "none"]

\* The command line invokes a command.
CliInvoke ==
    /\ pc = "idle"
    /\ \E cmd \in Commands, base_given \in BOOLEAN :
         /\ base_given => cmd = "rasterize_cli"
         /\ cli' = [cmd |-> cmd, base_given |-> base_given,
                    status |-> "running", step |-> 1,
                    locals |-> Parameters(cmd, base_given), handles |-> {},
                    log |-> <<>>, error |-> "none"]
    /\ pc' = "cli"
    /\ UNCHANGED <<op, args, result>>

\* The running command executes its next statement.
CliStep ==
    /\ pc = "cli"
    /\ cli.status = "running"
    /\ cli.step <= Len(Program(cli.cmd, cli.base_given))
    /\ \E c \in execute(cli) : cli' = c
    /\ UNCHANGED <<pc, op, args, result>>

\* The running command reaches the end of its body.
CliFinish ==
    /\ pc = "cli"
    /\ cli.status = "running"
    /\ cli.step > Len(Program(cli.cmd, cli.base_given))
    /\ cli' = [cli EXCEPT !.status = "done"]
    /\ UNCHANGED <<pc, op, args, result>>

\* The process ends: with exit status 0, or with the stack trace of the
\* exception that nothing caught.
CliExit ==
    /\ pc = "cli"
    /\ cli.status \in {"done", "error"}
    /\ cli' = CliIdle
    /\ pc' = "idle"
    /\ UNCHANGED <<op, args, result>>

(***************************************************************************)
(* Properties of the statistical tests.                                    *)
(***************************************************************************)
NormalityReturned == pc = "returned" /\ op = "normality_test"

\* The observations held by the input of normality_test: the rows of a
\* DataFrame, all the elements of an array.
Observations ==
    IF args.data.is_dataframe THEN args.data.nrows ELSE size(args.data)

\* The columns normality_test is asked to test.
TestedColumns ==
    IF args.columns.given THEN args.columns.list ELSE args.data.columns

\* An input of normality_test free of NaN that passes every check but the
\* one of the sample size: not empty and, for a DataFrame, at least one
\* column tested and only numeric columns of the frame selected.
NormalityInputValid ==
    IF args.data.is_dataframe
    THEN /\ args.data.nrows > 0
         /\ Len(args.data.columns) > 0
         /\ args.data.nan_cols = {}
         /\ Len(TestedColumns) > 0
         /\ ToSet(TestedColumns) \subseteq ToSet(args.data.columns)
         /\ ToSet(TestedColumns) \cap args.data.nonnumeric = {}
    ELSE size(args.data) > 0 /\ args.data.nan = 0

\* C5: normality_test raises SampleSizeExceededException whenever the input
\* holds more than 5000 observations and not when it holds 5000 or fewer,
\* for a DataFrame and for an array of any shape.
C5_SampleSizeCeiling ==
    (NormalityReturned /\ NormalityInputValid) =>
        (result.status = "SampleSizeExceededException"
             <=> Observations > SampleSizeLimit)

\* C6: correlation_matrix and covariance_matrix of an empty DataFrame fail
\* with EmptyDataFrameException whatever the other arguments are, and corr /
\* cov is not invoked.
C6_EmptyFrameRejectedBeforeNumerics ==
    (/\ pc = "returned"
     /\ op \in {"correlation_matrix", "covariance_matrix"}
     /\ (args.data.nrows = 0 \/ Len(args.data.columns) = 0)) =>
        /\ result.status = "EmptyDataFrameException"
        /\ result.numeric = 0

C6_Witness ==
    /\ pc = "returned"
    /\ op = "correlation_matrix"
    /\ args.data.nrows = 0
    /\ args.data.columns = <<"t", "a">>
    /\ args.correlation_method = "kendall"
    /\ args.min_periods = {2}
    /\ result.status = "EmptyDataFrameException"

\* C9: chi_square_test of a non-empty DataFrame raises
\* InvalidParameterValueException whenever target_column is no column of the
\* frame and whenever `columns` holds a label that is no column of the
\* frame, and computes no contingency table then.
C9_InvalidColumnsRejected ==
    (/\ pc = "returned"
     /\ op = "chi_square_test"
     /\ args.data.nrows > 0
     /\ Len(args.data.columns) > 0
     /\ \/ args.target_column \notin ToSet(args.data.columns)
        \/ /\ args.columns.given
           /\ ~(ToSet(args.columns.list) \subseteq ToSet(args.data.columns))) =>
        /\ result.status = "InvalidParameterValueException"
        /\ result.crosstabs = 0

(***************************************************************************)
(* Properties of one_hot_encode and single_pairwise_logratio.              *)
(***************************************************************************)
OneHotReturned == pc = "returned" /\ op = "one_hot_encode"

\* A successful encoding of a DataFrame.
OneHotFrameOk ==
    OneHotReturned /\ args.data.is_dataframe /\ result.status = "ok"

\* The columns selected for encoding.
SelectedColumns ==
    IF args.columns.given THEN ToSet(args.columns.list)
    ELSE ToSet(args.data.columns)

\* The number of unique categories of a column of the input.
UniqueCategories(label) ==
    Cardinality(ToSet(args.data.cells[position(args.data.columns, label)]))

\* The number of indicator columns of the output that belong to a feature.
IndicatorColumns(label) ==
    Cardinality({i \in DOMAIN result.columns :
                    /\ result.columns[i].indicator
                    /\ result.columns[i].feature = label})

\* Whether an original column of the input is a column of the output.
OriginalPresent(label) ==
    \E i \in DOMAIN result.columns :
        ~result.columns[i].indicator /\ result.columns[i].feature = label

\* With drop_encoded_columns the selected columns are gone from the output
\* and every other column of the input is still there.
SelectedDroppedOthersKept ==
    args.drop_encoded_columns =>
        \A label \in ToSet(args.data.columns) :
            OriginalPresent(label) <=> label \notin SelectedColumns

\* C7 as stated: a selected column with k unique categories gets exactly k
\* indicator columns, k - 1 when drop_category is 'first'; with
\* drop_encoded_columns the selected columns are absent and the others kept.
C7_IndicatorColumnsPerCategory ==
    OneHotFrameOk =>
        /\ \A label \in SelectedColumns :
              IndicatorColumns(label) =
                  IF args.drop_category = "first"
                  THEN UniqueCategories(label) - 1
                  ELSE UniqueCategories(label)
        /\ SelectedDroppedOthersKept

\* C7 amended: a selected column with k unique categories gets exactly k
\* indicator columns, k - 1 when drop_category is 'first' or when it is
\* 'if_binary' and k = 2; with drop_encoded_columns the selected columns are
\* absent and the others kept.
C7_IndicatorColumnsPerKeptCategory ==
    OneHotFrameOk =>
        /\ \A label \in SelectedColumns :
              IndicatorColumns(label) =
                  IF \/ args.drop_category = "first"
                     \/ (args.drop_category = "if_binary"
                            /\ UniqueCategories(label) = 2)
                  THEN UniqueCategories(label) - 1
                  ELSE UniqueCategories(label)
        /\ SelectedDroppedOthersKept

C7_Witness ==
    /\ OneHotFrameOk
    /\ args.data.columns = <<"a", "b">>
    /\ args.columns.given
    /\ args.columns.list = <<"a">>
    /\ args.drop_encoded_columns
    /\ args.drop_category = "first"
    /\ UniqueCategories("a") = 3
    /\ Len(result.columns) = 3
    /\ result.columns[1] = [indicator |-> FALSE, feature |-> "b", category |-> "-"]
    /\ IndicatorColumns("a") = 2

\* C8: single_pairwise_logratio raises InvalidParameterValueException for
\* every pair of operands of which at least one is zero.
C8_ZeroOperandRejected ==
    (/\ pc = "returned"
     /\ op = "single_pairwise_logratio"
     /\ (args.numerator = 0 \/ args.denominator = 0)) =>
        result.status = "InvalidParameterValueException"

C8_Witness ==
    /\ pc = "returned"
    /\ op = "single_pairwise_logratio"
    /\ args.numerator = 0
    /\ args.denominator = 15
    /\ result.status = "InvalidParameterValueException"

\* C10: for a non-empty numpy array the `columns` argument is ignored: the
\* call has the outcome of the same call with columns = None.
C10_ColumnsIgnoredForArrays ==
    (OneHotReturned /\ ~args.data.is_dataframe /\ ~empty(args.data)) =>
        result = one_hot_encode(args.data, [given |-> FALSE],
                                args.drop_encoded_columns, args.drop_category,
                                args.sparse_output)

(***************************************************************************)
(* Further properties of normality_test and resample.                      *)
(***************************************************************************)
ValidationErrors ==
    {"EmptyDataException", "InvalidColumnException", "NonNumericDataException",
     "SampleSizeExceededException"}

\* C11: normality_test is all-or-nothing: a call that ends with a validation
\* error (empty data, invalid column, non-numeric data, sample size
\* exceeded) has computed no Shapiro-Wilk statistic, also when several
\* columns are tested.
C11_ValidationBeforeAnyStatistic ==
    (NormalityReturned /\ result.status \in ValidationErrors) =>
        result.shapiros = 0

C11_Witness ==
    /\ NormalityReturned
    /\ args.data.is_dataframe
    /\ args.data.nrows = SampleSizeLimit + 1
    /\ args.columns.given
    /\ args.columns.list = <<"t", "a">>
    /\ result.status = "SampleSizeExceededException"
    /\ result.shapiros = 0

\* C15: whenever the sign validation of resample passes (upscale_factor > 0,
\* any upscale_factor_y), the grid asked for has height >= 1 and width >= 1
\* and the call succeeds: no division by zero, no error but the sign
\* validation error.
C15_ValidatedFactorsGiveNonEmptyGrid ==
    (ResampleReturned /\ args.upscale_factor[1] > 0) =>
        /\ result.status = "ok"
        /\ result.out_image.shape[2] >= 1
        /\ result.out_image.shape[3] >= 1

(***************************************************************************)
(* Properties of the commands.                                             *)
(***************************************************************************)
CliEnded == pc = "cli" /\ cli.status \in {"done", "error"}

Logged(event) == \E i \in DOMAIN cli.log : cli.log[i] = event

\* The position of the first occurrence of an event in the log, 0 if none.
FirstAt(event) ==
    IF Logged(event)
    THEN CHOOSE i \in DOMAIN cli.log :
            /\ cli.log[i] = event
            /\ \A j \in 1..(i - 1) : cli.log[j] # event
    ELSE 0

\* C12: no raster handle opened by a command is open when the command
\* returns or lets an exception through, whichever statement failed, and no
\* handle opened for reading is open while the output is open for writing.
C12_HandlesClosedOnEveryExit ==
    /\ cli.status \in {"idle", "done", "error"} => cli.handles = {}
    /\ (\E h \in cli.handles : h[2] = "w") => (\A h \in cli.handles : h[2] = "w")

C12_Witness ==
    /\ CliEnded
    /\ cli.cmd = "snap_raster_cli"
    /\ cli.error = "LibraryError"
    /\ Logged(<<"open_r", "input_raster">>)
    /\ Logged(<<"open_r", "snap_raster">>)
    /\ ~Logged(<<"close", "src">>)
    /\ cli.handles = {}

\* The implemented commands that produce a raster, the library function each
\* calls and the message each prints on completion.
RasterCommands ==
    {"clip_raster_cli", "reproject_raster_cli", "snap_raster_cli",
     "extract_window_cli", "rasterize_cli", "kriging_interpolation_cli",
     "distance_computation_cli"}

CompletionMessage ==
    CASE cli.cmd = "clip_raster_cli" -> "Clipping completed"
      [] cli.cmd = "reproject_raster_cli" -> "Reprojecting completed"
      [] cli.cmd = "snap_raster_cli" -> "Snapping completed"
      [] cli.cmd = "extract_window_cli" -> "Windowing completed"
      [] cli.cmd = "rasterize_cli" -> "Rasterizing completed"
      [] cli.cmd = "kriging_interpolation_cli" -> "Kriging interpolation completed"
      [] cli.cmd = "distance_computation_cli" -> "Distance computation completed"
      [] OTHER -> "none"

LibraryCallSucceeded == \E i \in DOMAIN cli.log : cli.log[i][1] = "call"

\* C13: a raster-producing command whose library call succeeded and whose
\* file operations the environment does not fail ends having opened the
\* path of its output_raster option for writing, written the image to it
\* and, after that write, printed its completion message.
C13_OutputRasterWrittenBeforeCompletion ==
    (/\ CliEnded
     /\ cli.cmd \in RasterCommands
     /\ LibraryCallSucceeded
     /\ cli.error # "OSError") =>
        /\ cli.status = "done"
        /\ Logged(<<"open_w", "output_raster">>)
        /\ FirstAt(<<"open_w", "output_raster">>) < FirstAt(<<"write", "dst">>)
        /\ FirstAt(<<"write", "dst">>) < FirstAt(<<"echo", CompletionMessage>>)

\* C14: rasterize_cli without the option base_raster_profile_raster does not
\* fail because of the missing option: once the vector file is read it
\* reaches the call of rasterize_vector, and when that call succeeds it sets
\* the output dtype to float.
C14_RasterizeWithoutBaseProfile ==
    (CliEnded /\ cli.cmd = "rasterize_cli" /\ ~cli.base_given) =>
        /\ cli.error # "UnboundLocalError"
        /\ Logged(<<"read_file", "input_vector">>) =>
               (Logged(<<"call", "rasterize_vector">>)
                   \/ cli.error = "LibraryError")
        /\ Logged(<<"call", "rasterize_vector">>) =>
               Logged(<<"assign", "out_meta.update dtype float">>)

(***************************************************************************)
(* The caller: every function is called from the idle state and returns    *)
(* (a value or an exception) before the next call.                         *)
(***************************************************************************)
NoArgs == [none |-> TRUE]

Init ==
    /\ pc = "idle"
    /\ op = "none"
    /\ args = NoArgs
    /\ result = [status |-> "none"]
    /\ cli = CliIdle

Return ==
    /\ pc = "returned"
    /\ pc' = "idle"
    /\ op' = "none"
    /\ args' = NoArgs
    /\ result' = [status |-> "none"]
    /\ UNCHANGED cli

Next ==
    \/ ResampleCall
    \/ ChiSquareTestCall
    \/ NormalityTestCall
    \/ CorrelationMatrixCall
    \/ CovarianceMatrixCall
    \/ OneHotEncodeCall
    \/ SinglePairwiseLogratioCall
    \/ Return
    \/ CliInvoke
    \/ CliStep
    \/ CliFinish
    \/ CliExit

Spec == Init /\ [][Next]_vars

====
